---------------------------- MODULE Spec2Model ----------------------------
(***************************************************************************)
(* PicoTorrent main frame (mainframe.cpp, kept as src/unnamed/part_000):   *)
(* the torrent intake path (AddTorrents, HandleParams, ParseTorrentFiles), *)
(* the add-dialog registry fed by metadata-found events, the selection map *)
(* kept against the session's added / removed / updated events, and the    *)
(* low-disk-space check run on every update batch.                         *)
(*                                                                         *)
(* Every event handler runs on the UI thread to completion, so each is one *)
(* action.  The variables lastOp .. calls describe the handler that ran    *)
(* last: its input, the values of its locals when it left, and the calls   *)
(* it made on its collaborators, in order.                                 *)
(***************************************************************************)
EXTENDS Integers, Sequences, FiniteSets, TLC

(***************************************************************************)
(* Bounds of the model.                                                    *)
(***************************************************************************)
\* longest batch handed to AddTorrents
MaxBatch == 2
\* longest label list returned by GetLabels
MaxLabels == 2
\* most add-torrent dialogs open at once
MaxDialogs == 2
\* longest file list and longest magnet list handed to HandleParams
MaxArgs == 2
\* longest batch of a torrents-updated event
MaxUpdated == 2
\* pause commands counted per torrent and pause episode
MaxPauses == 2

(***************************************************************************)
(* Strings are sequences of one-character strings, so that the regular     *)
(* expression search is computed and not assumed.                          *)
(***************************************************************************)
Range(s) == {s[i] : i \in 1..Len(s)}

SeqsUpTo(S, n) == UNION {[1..k -> S] : k \in 0..n}

\* std::regex_constants::icase: characters are compared after case folding
Lower(c) == IF c = "A" THEN "a" ELSE IF c = "B" THEN "b" ELSE c

\* std::regex's constructor throws std::regex_error on a pattern that is not
\* a regular expression; in the modelled alphabet that is an unclosed "("
RegexValid(pat) == "(" \notin Range(pat)

\* the pattern (literal characters) matches name at position k
MatchAt(name, pat, k) ==
    /\ k + Len(pat) - 1 <= Len(name)
    /\ \A i \in 1..Len(pat) : Lower(name[k + i - 1]) = Lower(pat[i])

\* a faulty variant: the whole name has to match (std::regex_match)
regex_match(name, pat) == Len(name) = Len(pat) /\ MatchAt(name, pat, 1)

\* std::regex_search(name, re): the pattern matches somewhere in name
regex_search(name, pat) == \E k \in 1..(Len(name) + 1) : MatchAt(name, pat, k)

(***************************************************************************)
(* lt::add_torrent_params, as far as AddTorrents reads and writes it.      *)
(* An info hash is 0 (all zeros: libtorrent's has_v1()/has_v2() are false) *)
(* or a non-zero digest.                                                   *)
(***************************************************************************)
Descriptor(hasTi, tiName, name, v1, v2, flags) ==
    [hasTi |-> hasTi, tiName |-> tiName, name |-> name, v1 |-> v1, v2 |-> v2,
     flags |-> flags, save_path |-> ""]

\* the descriptors batches are drawn from
Descriptors ==
    { Descriptor(TRUE,  <<"b">>, <<>>, 0, 0, {}),              \* parsed .torrent file
      Descriptor(FALSE, <<>>, <<"A", "b">>, 1, 0, {}),         \* magnet link, v1, named
      Descriptor(FALSE, <<>>, <<>>, 1, 0, {"paused"}),         \* same magnet, unnamed
      Descriptor(FALSE, <<>>, <<"b">>, 0, 2, {}),              \* magnet link, v2 only
      Descriptor(TRUE,  <<"A", "b">>, <<>>, 1, 0, {}),         \* hash and metadata both
      Descriptor(FALSE, <<>>, <<"b">>, 0, 0, {}),              \* placeholder hash only
      Descriptor(TRUE,  <<"b">>, <<"A", "b">>, 0, 0, {}) }     \* explicit name over ti's

Label(id, enabled, filter, savePath, savePathEnabled) ==
    [id |-> id, applyFilterEnabled |-> enabled, applyFilter |-> filter,
     savePath |-> savePath, savePathEnabled |-> savePathEnabled]

\* the labels a configuration is drawn from; ids are unique
LabelPool ==
    { Label(1, TRUE,  <<"a">>, "/iso", TRUE),
      Label(2, TRUE,  <<"b">>, "/b",   FALSE),
      Label(3, TRUE,  <<"(">>, "/p",   TRUE),
      Label(4, FALSE, <<"b">>, "/x",   TRUE),
      Label(5, TRUE,  <<>>,    "/y",   TRUE),
      Label(6, TRUE,  <<"b">>, "",     TRUE) }

\* label lists: the pool's labels in any order, none twice
LabelLists ==
    {ls \in SeqsUpTo(LabelPool, MaxLabels) :
        \A i, j \in 1..Len(ls) : i # j => ls[i].id # ls[j].id}

\* the event data of a handler that takes none
NoEvent == [none |-> TRUE]

\* BitTorrent::AddParams' labelId before any label matched
NoLabel == -1

DefaultSavePath == "/dl"

VARIABLES
    m_selection,        \* info hash -> handle: the selected torrents
    m_torrentsCount,    \* the status bar's torrent counter
    m_addDialogs,       \* the open add-torrent dialogs
    listModel,          \* m_torrentListModel: info hash -> handle of each row
    cfg,                \* m_cfg: the configuration values the handlers read
    isWin32,            \* the build: whether _WIN32 is defined
    crashed,            \* an exception left a handler
    torrents,           \* the session: info hash -> status of each torrent it holds
    pauseCount,         \* info hash -> pause commands in the current pause episode
    lastOp,             \* the handler that ran last
    evt,                \* its event data or arguments
    argParams,          \* AddTorrents: the batch as passed in
    params,             \* AddTorrents: the caller's vector when the call left
    userdata,           \* AddTorrents: labelId of the AddParams of each entry reached
    hashes,             \* AddTorrents: the local vector of info hashes
    calls               \* the calls the handler made on its collaborators, in order

progVars == <<m_selection, m_torrentsCount, m_addDialogs, listModel, cfg, isWin32, crashed>>
envVars == <<torrents, pauseCount>>
traceVars == <<lastOp, evt, argParams, params, userdata, hashes, calls>>
vars == <<m_selection, m_torrentsCount, m_addDialogs, listModel, cfg, isWin32, crashed,
          torrents, pauseCount, lastOp, evt, argParams, params, userdata, hashes, calls>>

(***************************************************************************)
(* AddTorrents, lines 405-500.                                             *)
(***************************************************************************)
InfoHashes(p) == <<p.v1, p.v2>>

\* a faulty variant: any descriptor without metadata is pending, placeholder hash or not
NeedsMetadataAnyHash(p) == ~p.hasTi

\* lines 430-433: an info hash that is not all zeros, and no torrent info
NeedsMetadata(p) == (p.v1 # 0 \/ p.v2 # 0) /\ ~p.hasTi

\* a faulty variant: the torrent info's name wins over the explicit name
TiNameFirst(p) == IF p.hasTi THEN p.tiName ELSE p.name

\* lines 447-449: the torrent info's name, overridden by the explicit name
DerivedName(p) ==
    LET fromTi == IF p.hasTi THEN p.tiName ELSE <<>>
    IN  IF Len(p.name) > 0 THEN p.name ELSE fromTi

\* lines 441-445: labels without an enabled, non-empty filter are passed over
FilterApplies(label) == label.applyFilterEnabled /\ label.applyFilter # <<>>

\* a faulty variant: the label's save path is taken whether enabled or not
AlwaysLabelSavePath(label, current) ==
    IF Len(label.savePath) > 0 THEN label.savePath ELSE current

\* lines 463-467: the label's save path replaces the default one
LabelSavePath(label, current) ==
    IF Len(label.savePath) > 0 /\ label.savePathEnabled THEN label.savePath ELSE current

\* lines 439-471: the label loop for one descriptor, from label i on.
\* threw: constructing std::regex raised std::regex_error (line 456).
RECURSIVE MatchLabels(_, _, _)
MatchLabels(p, labels, i) ==
    IF i > Len(labels)
    THEN [threw |-> FALSE, labelId |-> NoLabel, save_path |-> p.save_path]
    ELSE LET label == labels[i]
             name == DerivedName(p)
         IN  IF ~FilterApplies(label) THEN MatchLabels(p, labels, i + 1)
             ELSE IF name = <<>> THEN MatchLabels(p, labels, i + 1)
             ELSE IF ~RegexValid(label.applyFilter)
                  THEN [threw |-> TRUE, labelId |-> NoLabel, save_path |-> p.save_path]
             ELSE IF regex_search(name, label.applyFilter)
                  THEN [threw |-> FALSE, labelId |-> label.id,
                        save_path |-> LabelSavePath(label, p.save_path)]
             ELSE MatchLabels(p, labels, i + 1)

\* a faulty variant: the flags are overwritten, not or-ed
OnlyDuplicateIsError(p, c) ==
    [p EXCEPT !.flags = {"duplicate_is_error"},
              !.save_path = c.default_save_path]

\* lines 423-424: the defaults every descriptor gets
WithDefaults(p, c) ==
    [p EXCEPT !.flags = @ \cup {"duplicate_is_error"},
              !.save_path = c.default_save_path]

\* lines 419-472: the classification loop from entry i on.  st is the loop's
\* state: the caller's vector, the labelIds set so far, the local hashes.
RECURSIVE Classify(_, _, _)
Classify(st, c, i) ==
    IF i > Len(st.params) THEN st
    ELSE LET p == WithDefaults(st.params[i], c)
             hs == IF NeedsMetadata(p) THEN Append(st.hashes, InfoHashes(p))
                   ELSE st.hashes
             m == MatchLabels(p, c.labels, 1)
             q == [p EXCEPT !.save_path = m.save_path]
             next == [threw |-> m.threw,
                      params |-> [st.params EXCEPT ![i] = q],
                      userdata |-> Append(st.userdata, m.labelId),
                      hashes |-> hs]
         IN  IF m.threw THEN next ELSE Classify(next, c, i + 1)

\* ids of the dialogs lines 484-497 create: the lowest ones not in use
RECURSIVE FreshIds(_, _)
FreshIds(used, n) ==
    IF n = 0 THEN <<>>
    ELSE LET id == CHOOSE x \in 1..(Cardinality(used) + 1) : x \notin used
         IN  <<id>> \o FreshIds(used \cup {id}, n - 1)

NewDialog(id, p) == [id |-> id, info_hashes |-> InfoHashes(p)]

\* lines 476-479: every descriptor goes to the session
RECURSIVE SubmitCalls(_)
SubmitCalls(ps) ==
    IF ps = <<>> THEN <<>>
    ELSE << <<"m_session->AddTorrent", Head(ps)>> >> \o SubmitCalls(Tail(ps))

\* a faulty variant: the dialogs are shown and never registered
RECURSIVE ShowOnly(_, _, _)
ShowOnly(ps, ids, i) ==
    IF i > Len(ps) THEN <<>>
    ELSE <<<<"dlg->Show", [dlg |-> NewDialog(ids[i], ps[i]), param |-> ps[i]]>>>>
         \o ShowOnly(ps, ids, i + 1)

\* lines 484-497: a dialog per descriptor, shown and then registered
RECURSIVE DialogCalls(_, _, _)
DialogCalls(ps, ids, i) ==
    IF i > Len(ps) THEN <<>>
    ELSE <<<<"dlg->Show", [dlg |-> NewDialog(ids[i], ps[i]), param |-> ps[i]]>>,
           <<"m_addDialogs.insert", NewDialog(ids[i], ps[i])>>>>
         \o DialogCalls(ps, ids, i + 1)

\* a faulty variant: the batch is processed even when it is empty
EmptyBatchIsProcessed(ps) == FALSE

\* lines 407-410
ReturnsAtOnce(ps) == Len(ps) = 0

\* The whole of AddTorrents on the batch ps: what it leaves behind.
AddTorrentsRun(ps, c, dialogs) ==
    IF ReturnsAtOnce(ps)
    THEN [threw |-> FALSE, params |-> ps, userdata |-> <<>>, hashes |-> <<>>,
          calls |-> <<>>, dialogs |-> dialogs]
    ELSE LET st == Classify([threw |-> FALSE, params |-> ps, userdata |-> <<>>,
                             hashes |-> <<>>], c, 1)
             ids == FreshIds({d.id : d \in dialogs}, Len(ps))
         IN  IF st.threw
             THEN [threw |-> TRUE, params |-> st.params, userdata |-> st.userdata,
                   hashes |-> st.hashes, calls |-> <<>>, dialogs |-> dialogs]
             ELSE IF c.skip_add_torrent_dialog
             THEN [threw |-> FALSE, params |-> st.params, userdata |-> st.userdata,
                   hashes |-> st.hashes, calls |-> SubmitCalls(st.params),
                   dialogs |-> dialogs]
             ELSE [threw |-> FALSE, params |-> st.params, userdata |-> st.userdata,
                   hashes |-> st.hashes,
                   calls |-> DialogCalls(st.params, ids, 1)
                             \o <<<<"m_session->AddMetadataSearch", st.hashes>>>>,
                   dialogs |-> dialogs \cup
                               {NewDialog(ids[i], st.params[i]) : i \in 1..Len(ps)}]

\* the state AddTorrents(ps) leaves, called from handler op with event data e
AddTorrentsStep(op, e, ps) ==
    /\ cfg.skip_add_torrent_dialog \/ Cardinality(m_addDialogs) + Len(ps) <= MaxDialogs
    /\ \E r \in {AddTorrentsRun(ps, cfg, m_addDialogs)} :
        /\ m_addDialogs' = r.dialogs
        /\ crashed' = r.threw
        /\ lastOp' = op
        /\ evt' = e
        /\ argParams' = ps
        /\ params' = r.params
        /\ userdata' = r.userdata
        /\ hashes' = r.hashes
        /\ calls' = r.calls
        /\ UNCHANGED <<m_selection, m_torrentsCount, listModel, cfg, isWin32>>
        /\ UNCHANGED envVars

\* AddTorrents called with a batch of its own (OnFileAddMagnetLink, line 670)
AddTorrents ==
    /\ ~crashed
    /\ \E ps \in SeqsUpTo(Descriptors, MaxBatch) : AddTorrentsStep("AddTorrents", NoEvent, ps)

(***************************************************************************)
(* HandleParams and ParseTorrentFiles, lines 502-529 and 797-814.          *)
(* A file argument is a path whose content lt::torrent_info either parses  *)
(* or rejects; a magnet argument is a string lt::parse_magnet_uri either   *)
(* parses (scheme magnet, an xt hash, an optional dn name) or rejects.     *)
(***************************************************************************)
FileArgs == { [parses |-> TRUE, tiName |-> <<"b">>],
              [parses |-> FALSE, tiName |-> <<>>] }

MagnetArgs == { [scheme |-> "magnet", xt |-> 1, dn |-> <<"A", "b">>],
                [scheme |-> "other", xt |-> 0, dn |-> <<>>] }

\* lt::parse_magnet_uri sets the error code unless the string is a magnet
\* link that names an info hash
MagnetParses(m) == m.scheme = "magnet" /\ m.xt # 0

\* a faulty variant: the first file that does not parse ends the loop
RECURSIVE ParseUntilFailure(_, _)
ParseUntilFailure(ps, paths) ==
    IF paths = <<>> THEN ps
    ELSE IF ~Head(paths).parses THEN ps
    ELSE ParseUntilFailure(
             Append(ps, Descriptor(TRUE, Head(paths).tiName, <<>>, 0, 0, {})), Tail(paths))

\* lines 799-813: one descriptor per file that parses, in order
RECURSIVE ParseTorrentFiles(_, _)
ParseTorrentFiles(ps, paths) ==
    IF paths = <<>> THEN ps
    ELSE LET path == Head(paths)
             param == Descriptor(TRUE, path.tiName, <<>>, 0, 0, {})
         IN  IF ~path.parses THEN ParseTorrentFiles(ps, Tail(paths))
             ELSE ParseTorrentFiles(Append(ps, param), Tail(paths))

\* lines 513-525: one descriptor per magnet link that parses, in order
RECURSIVE ParseMagnets(_, _)
ParseMagnets(ps, magnets) ==
    IF magnets = <<>> THEN ps
    ELSE LET magnet == Head(magnets)
             tp == Descriptor(FALSE, <<>>, magnet.dn, magnet.xt, 0, {})
         IN  IF ~MagnetParses(magnet) THEN ParseMagnets(ps, Tail(magnets))
             ELSE ParseMagnets(Append(ps, tp), Tail(magnets))

\* lines 504-526: the batch HandleParams builds
ParsedParams(files, magnets) == ParseMagnets(ParseTorrentFiles(<<>>, files), magnets)

HandleParams ==
    /\ ~crashed
    /\ \E files \in SeqsUpTo(FileArgs, MaxArgs), magnets \in SeqsUpTo(MagnetArgs, MaxArgs) :
          AddTorrentsStep("HandleParams", [files |-> files, magnets |-> magnets],
                          ParsedParams(files, magnets))

(***************************************************************************)
(* The add-dialog registry: ptEVT_TORRENT_METADATA_FOUND, lines 346-354,   *)
(* and the close handler bound to every dialog, lines 487-493.             *)
(***************************************************************************)
\* the info hashes a metadata-found event can name
EventHashes == {<<1, 0>>, <<0, 2>>}

\* the dialogs of a set in the order the set is iterated
RECURSIVE DialogSeq(_)
DialogSeq(ds) ==
    IF ds = {} THEN <<>>
    ELSE LET d == CHOOSE x \in ds : \A y \in ds : x.id <= y.id
         IN  <<d>> \o DialogSeq(ds \ {d})

\* a faulty variant: the event is dropped
PostToNone(ds, ih) == <<>>

\* a faulty variant: the event reaches the first dialog only
PostToFirst(ds, ih) ==
    IF ds = {} THEN <<>> ELSE <<<<"wxPostEvent", [dlg |-> DialogSeq(ds)[1], hash |-> ih]>>>>

\* lines 350-353: the event is posted to every dialog of m_addDialogs
RECURSIVE PostToDialogs(_, _)
PostToDialogs(ds, ih) ==
    IF ds = {} THEN <<>>
    ELSE << <<"wxPostEvent", [dlg |-> Head(DialogSeq(ds)), hash |-> ih]>> >>
         \o PostToDialogs(ds \ {Head(DialogSeq(ds))}, ih)

MetadataFound ==
    /\ ~crashed
    /\ \E ih \in EventHashes :
          /\ lastOp' = "MetadataFound"
          /\ evt' = [hash |-> ih]
          /\ calls' = PostToDialogs(m_addDialogs, ih)
    /\ argParams' = <<>> /\ params' = <<>> /\ userdata' = <<>> /\ hashes' = <<>>
    /\ UNCHANGED progVars
    /\ UNCHANGED envVars

\* lines 489-493: a dialog that closes leaves the registry
DialogClosed ==
    /\ ~crashed
    /\ \E d \in m_addDialogs :
          /\ m_addDialogs' = m_addDialogs \ {d}
          /\ lastOp' = "DialogClosed"
          /\ evt' = [dlg |-> d]
          /\ calls' = <<>>
    /\ argParams' = <<>> /\ params' = <<>> /\ userdata' = <<>> /\ hashes' = <<>>
    /\ UNCHANGED <<m_selection, m_torrentsCount, listModel, cfg, isWin32, crashed>>
    /\ UNCHANGED envVars

(***************************************************************************)
(* The state after MainFrame's constructor, and the intake specification:  *)
(* batches arrive, metadata is found, dialogs close.  The configuration is *)
(* any one the label pool allows; it is read, never written, here.         *)
(***************************************************************************)
EmptyMap == [h \in {} |-> h]

Config(labels, skip, check, limit) ==
    [labels |-> labels, default_save_path |-> DefaultSavePath,
     skip_add_torrent_dialog |-> skip,
     pause_on_low_disk_space |-> check, pause_on_low_disk_space_limit |-> limit]

\* lines 53-68 and 356-358: nothing selected, no torrents, no dialogs
InitFrame ==
    /\ m_selection = EmptyMap
    /\ m_torrentsCount = 0
    /\ m_addDialogs = {}
    /\ listModel = EmptyMap
    /\ crashed = FALSE
    /\ torrents = EmptyMap
    /\ pauseCount = EmptyMap
    /\ lastOp = "MainFrame"
    /\ evt = NoEvent
    /\ argParams = <<>> /\ params = <<>> /\ userdata = <<>> /\ hashes = <<>>
    /\ calls = <<>>

InitIntake ==
    /\ InitFrame
    /\ isWin32 = TRUE
    /\ \E labels \in LabelLists, skip \in BOOLEAN : cfg = Config(labels, skip, FALSE, 50)

NextIntake == AddTorrents \/ HandleParams \/ MetadataFound \/ DialogClosed

SpecIntake == InitIntake /\ [][NextIntake]_vars

(***************************************************************************)
(* The session's events, lines 120-209, and the list view's selection      *)
(* event, lines 223-244.                                                   *)
(***************************************************************************)
\* the info hashes of the torrents the session can hold
TorrentHashes == {<<1, 0>>, <<0, 2>>}

\* a BitTorrent::TorrentHandle*: the torrent it stands for and which object it is
Handles == [hash : TorrentHashes, obj : {"x", "y"}]

\* what GetDiskFreeSpaceEx answers for a save path: failure, or free and total bytes
DiskAnswers == { [res |-> FALSE, free |-> 0,  total |-> 0],
                 [res |-> TRUE,  free |-> 50, total |-> 100],
                 [res |-> TRUE,  free |-> 49, total |-> 100],
                 [res |-> TRUE,  free |-> 0,  total |-> 0] }

\* the limits pause_on_low_disk_space_limit is drawn from
Limits == {50}

\* a function without the key k
Without(f, k) == [x \in DOMAIN f \ {k} |-> f[x]]

\* TorrentListModel::AddTorrent (called at line 130): the torrent gets a row
ModelAddTorrent(model, th) == (th.hash :> th) @@ model

\* TorrentListModel::RemoveTorrent (called at line 147): the row goes
ModelRemoveTorrent(model, ih) == Without(model, ih)

\* TorrentListView::GetSelections (called at line 227): the rows the view reports
\* selected are rows of the list model
SelectableItems(model) == SUBSET (DOMAIN model)

\* a faulty variant: the counter is left as it is
CountUnchanged(n) == n

\* line 128: m_torrentsCount++
CountAfterAdded(n) == n + 1

\* line 145: m_torrentsCount--
CountAfterRemoved(n) == n - 1

\* lines 126-131: ptEVT_TORRENT_ADDED.  The session adds a torrent it does not
\* hold yet; the handle object it creates first for a torrent is called "x".
TorrentAdded ==
    /\ ~crashed
    /\ \E th \in Handles :
          /\ th.hash \notin DOMAIN torrents
          /\ th.obj = "x"
          /\ torrents' = (th.hash :> "downloading") @@ torrents
          /\ pauseCount' = (th.hash :> 0) @@ pauseCount
          /\ m_torrentsCount' = CountAfterAdded(m_torrentsCount)
          /\ listModel' = ModelAddTorrent(listModel, th)
          /\ lastOp' = "TorrentAdded"
          /\ evt' = [handle |-> th]
          /\ calls' = << <<"m_statusBar->UpdateTorrentCount", CountAfterAdded(m_torrentsCount)>>,
                         <<"m_torrentListModel->AddTorrent", th>> >>
    /\ argParams' = <<>> /\ params' = <<>> /\ userdata' = <<>> /\ hashes' = <<>>
    /\ UNCHANGED <<m_selection, m_addDialogs, cfg, isWin32, crashed>>

\* a faulty variant: the torrent stays in the selection
KeepSelection(sel, ih) == sel

\* lines 150-156: the removed torrent leaves the selection
EraseSelection(sel, ih) == IF ih \in DOMAIN sel THEN Without(sel, ih) ELSE sel

\* lines 143-157: ptEVT_TORRENT_REMOVED
TorrentRemoved ==
    /\ ~crashed
    /\ \E ih \in DOMAIN torrents :
          /\ torrents' = Without(torrents, ih)
          /\ pauseCount' = Without(pauseCount, ih)
          /\ m_torrentsCount' = CountAfterRemoved(m_torrentsCount)
          /\ listModel' = ModelRemoveTorrent(listModel, ih)
          /\ m_selection' = EraseSelection(m_selection, ih)
          /\ lastOp' = "TorrentRemoved"
          /\ evt' = [hash |-> ih]
          /\ calls' = << <<"m_statusBar->UpdateTorrentCount", CountAfterRemoved(m_torrentsCount)>>,
                         <<"m_torrentListModel->RemoveTorrent", ih>> >>
                       \o (IF ih \in DOMAIN m_selection THEN << <<"m_torrentDetails->Reset", <<>> >> >>
                           ELSE <<>>)
    /\ argParams' = <<>> /\ params' = <<>> /\ userdata' = <<>> /\ hashes' = <<>>
    /\ UNCHANGED <<m_addDialogs, cfg, isWin32, crashed>>

\* lines 159-184: ptEVT_TORRENT_STATISTICS
TorrentStatistics ==
    /\ ~crashed
    /\ lastOp' = "TorrentStatistics"
    /\ evt' = NoEvent
    /\ calls' = << <<"m_statusBar->UpdateTransferRates", <<>> >> >>
    /\ argParams' = <<>> /\ params' = <<>> /\ userdata' = <<>> /\ hashes' = <<>>
    /\ UNCHANGED progVars
    /\ UNCHANGED envVars

\* a faulty variant: the rows selected before stay selected
AllRows(items, model) == model

\* lines 226-243: the selection is rebuilt from the rows selected in the list
\* view, each row giving the handle the list model holds for it
SelectionOf(items, model) == [ih \in items |-> model[ih]]

\* lines 223-244: wxEVT_DATAVIEW_SELECTION_CHANGED
SelectionChanged ==
    /\ ~crashed
    /\ \E items \in SelectableItems(listModel) :
          /\ m_selection' = SelectionOf(items, listModel)
          /\ lastOp' = "SelectionChanged"
          /\ evt' = [items |-> items]
          /\ calls' = IF items = {} THEN << <<"m_torrentDetails->Reset", <<>> >> >>
                       ELSE << <<"m_torrentDetails->Refresh", SelectionOf(items, listModel)>> >>
    /\ argParams' = <<>> /\ params' = <<>> /\ userdata' = <<>> /\ hashes' = <<>>
    /\ UNCHANGED <<m_torrentsCount, m_addDialogs, listModel, cfg, isWin32, crashed>>
    /\ UNCHANGED envVars

(***************************************************************************)
(* ptEVT_TORRENTS_UPDATED, lines 186-209, and CheckDiskSpace, lines        *)
(* 531-576.  An entry of the batch is a handle together with the answer    *)
(* GetDiskFreeSpaceEx gives for its save path during this pass.            *)
(***************************************************************************)
UpdateEntries == [handle : Handles, disk : DiskAnswers]

UpdateBatches ==
    {b \in SeqsUpTo(UpdateEntries, MaxUpdated) :
        \A i, j \in 1..Len(b) : i # j => b[i].handle.hash # b[j].handle.hash}

RECURSIVE HandlesOf(_)
HandlesOf(batch) ==
    IF batch = <<>> THEN <<>> ELSE <<Head(batch).handle>> \o HandlesOf(Tail(batch))

\* a faulty variant: every handle of the batch is reported, selected or not
AllUpdated(batch, sel) ==
    [ih \in {batch[i].handle.hash : i \in 1..Len(batch)} |->
        batch[CHOOSE i \in 1..Len(batch) : batch[i].handle.hash = ih].handle]

\* lines 191-201: the handles of the batch whose hash is selected (std::map::insert
\* keeps the first handle of a hash)
SelectedUpdated(batch, sel) ==
    LET hit == {i \in 1..Len(batch) : batch[i].handle.hash \in DOMAIN sel}
    IN  [ih \in {batch[i].handle.hash : i \in hit} |->
            batch[CHOOSE i \in hit : /\ batch[i].handle.hash = ih
                                     /\ \A j \in hit : batch[j].handle.hash = ih => i <= j].handle]

(***************************************************************************)
(* float is IEEE 754 binary32.  A positive float is [e, m] and stands for  *)
(* m * 2^(e - 23) with 2^23 <= m < 2^24; zero has m = 0.  The byte counts  *)
(* of the model stay below 2^27, so every step fits 32-bit integers.       *)
(***************************************************************************)
\* significant bits of a float
MantissaBits == 24

RECURSIVE Pow2(_)
Pow2(n) == IF n = 0 THEN 1 ELSE 2 * Pow2(n - 1)

\* the distance between neighbouring floats at the integer n
RECURSIVE Ulp(_)
Ulp(n) == IF n < Pow2(MantissaBits) THEN 1 ELSE 2 * Ulp(n \div 2)

\* static_cast<float>(QuadPart), line 557: the nearest float, ties to the even
\* mantissa; the result is again an integer
ToFloat(n) ==
    LET s == Ulp(n)
        q == n \div s
        r == n % s
    IN  IF 2 * r < s THEN q * s
        ELSE IF 2 * r > s THEN (q + 1) * s
        ELSE IF q % 2 = 0 THEN q * s ELSE (q + 1) * s

\* a and b scaled by powers of two until b <= a < 2b; the quotient is then
\* in [1, 2) times 2^e
RECURSIVE Normalize(_, _, _)
Normalize(a, b, e) ==
    IF a < b THEN Normalize(2 * a, b, e - 1)
    ELSE IF a >= 2 * b THEN Normalize(a, 2 * b, e + 1)
    ELSE [a |-> a, b |-> b, e |-> e]

\* long division: m the quotient bits so far, r the remainder, k bits to go
RECURSIVE QuotientBits(_, _, _, _)
QuotientBits(m, r, b, k) ==
    IF k = 0 THEN [m |-> m, r |-> r]
    ELSE IF 2 * r >= b THEN QuotientBits(2 * m + 1, 2 * r - b, b, k - 1)
    ELSE QuotientBits(2 * m, 2 * r, b, k - 1)

\* the float quotient a / b of two floats holding the integers a >= 0 and
\* b > 0, rounded to nearest, ties to even (lines 557 and 558)
FloatDiv(a, b) ==
    IF a = 0 THEN [e |-> 0, m |-> 0]
    ELSE LET n == Normalize(a, b, 0)
             q == QuotientBits(1, n.a - n.b, n.b, MantissaBits - 1)
             up == 2 * q.r > n.b \/ (2 * q.r = n.b /\ q.m % 2 = 1)
             m == IF up THEN q.m + 1 ELSE q.m
         IN  IF m = Pow2(MantissaBits)
             THEN [e |-> n.e + 1, m |-> Pow2(MantissaBits - 1)]
             ELSE [e |-> n.e, m |-> m]

\* x < y for floats that are not negative (line 560)
FloatLess(x, y) ==
    IF y.m = 0 THEN FALSE
    ELSE IF x.m = 0 THEN TRUE
    ELSE x.e < y.e \/ (x.e = y.e /\ x.m < y.m)

\* a faulty variant: at the limit counts as low
DiskSpaceAtMost(free, total, limit) ==
    total # 0 /\ ~FloatLess(FloatDiv(limit, 100), FloatDiv(ToFloat(free), ToFloat(total)))

\* lines 557-560: diskSpaceAvailable < diskSpaceLimit, both floats.  A total of
\* zero divides to NaN or infinity, which is not below any limit.
DiskSpaceLow(free, total, limit) ==
    total # 0 /\ FloatLess(FloatDiv(ToFloat(free), ToFloat(total)), FloatDiv(limit, 100))

\* byte counts at, just below and just above a limit: small ones and ones
\* beyond the 24 bits a float holds exactly
FreeBytes == {0, 49, 50, 3355447, 16777216}

TotalBytes == {100, 33554433, 33554470}

BoundaryLimits == {10, 50}

BoundaryAnswers ==
    {d \in [res : {TRUE}, free : FreeBytes, total : TotalBytes] : d.free <= d.total}

\* the answers and limits of the model for which line 560 finds the space
\* low; the comparison is computed once for each
LowDiskSpace ==
    {x \in {<<d, limit>> : d \in DiskAnswers \cup BoundaryAnswers,
                           limit \in Limits \cup BoundaryLimits} :
        DiskSpaceLow(x[1].free, x[1].total, x[2])}

\* a faulty variant: a failed query counts as no space left
PausesOnFailure(e, c) ==
    ~e.disk.res \/ <<e.disk, c.pause_on_low_disk_space_limit>> \in LowDiskSpace

\* lines 555-573: the entry's torrent is paused and a balloon is shown
PausesEntry(e, c) ==
    e.disk.res /\ <<e.disk, c.pause_on_low_disk_space_limit>> \in LowDiskSpace

\* a faulty variant: the configuration flag is not looked at
ChecksAlways(c, win) == win

\* lines 533-539 and the #ifdef of line 540: whether the loop runs at all
ChecksDiskSpace(c, win) == c.pause_on_low_disk_space /\ win

\* lines 541-574: the calls of one pass over the batch
RECURSIVE CheckDiskSpaceCalls(_, _, _)
CheckDiskSpaceCalls(batch, c, i) ==
    IF i > Len(batch) THEN <<>>
    ELSE (IF PausesEntry(batch[i], c)
          THEN << <<"torrent->Pause", batch[i].handle>>, <<"m_taskBarIcon->ShowBalloon", batch[i].handle.hash>> >>
          ELSE <<>>)
         \o CheckDiskSpaceCalls(batch, c, i + 1)

CheckDiskSpace(batch, c, win) ==
    IF ChecksDiskSpace(c, win) THEN CheckDiskSpaceCalls(batch, c, 1) ELSE <<>>

\* the hashes a sequence of calls pauses
PausedBy(cs) == {cs[i][2].hash : i \in {j \in 1..Len(cs) : cs[j][1] = "torrent->Pause"}}

\* the hashes of a batch
BatchHashes(batch) == {batch[i].handle.hash : i \in 1..Len(batch)}

\* pause commands since the torrent was last seen downloading: an update that
\* shows the torrent downloading starts a new episode
CountedPauses(ih, batch, paused) ==
    LET before == IF ih \in BatchHashes(batch) /\ torrents[ih] = "downloading"
                  THEN 0 ELSE pauseCount[ih]
    IN  IF ih \in paused THEN before + 1 ELSE before

\* lines 186-209 on a batch drawn from batches
TorrentsUpdatedFrom(batches) ==
    /\ ~crashed
    /\ \E batch \in batches :
        \E cds \in {CheckDiskSpace(batch, cfg, isWin32)} :
        \E paused \in {PausedBy(cds)}, su \in {SelectedUpdated(batch, m_selection)} :
          /\ \A ih \in DOMAIN torrents : CountedPauses(ih, batch, paused) <= MaxPauses
          /\ torrents' = [ih \in DOMAIN torrents |->
                              IF ih \in paused THEN "paused" ELSE torrents[ih]]
          /\ pauseCount' = [ih \in DOMAIN torrents |-> CountedPauses(ih, batch, paused)]
          /\ lastOp' = "TorrentsUpdated"
          /\ evt' = [batch |-> batch]
          /\ calls' = << <<"m_torrentListModel->UpdateTorrents", HandlesOf(batch)>> >>
                       \o (IF DOMAIN su # {} THEN << <<"m_torrentDetails->Refresh", su>> >> ELSE <<>>)
                       \o cds
    /\ argParams' = <<>> /\ params' = <<>> /\ userdata' = <<>> /\ hashes' = <<>>
    /\ UNCHANGED progVars

TorrentsUpdated == TorrentsUpdatedFrom(UpdateBatches)

\* the user resumes a paused torrent (the session's side of the pause episode);
\* no handler of the frame runs
TorrentResumed ==
    /\ ~crashed
    /\ \E ih \in DOMAIN torrents :
          /\ torrents[ih] = "paused"
          /\ torrents' = [torrents EXCEPT ![ih] = "downloading"]
          /\ lastOp' = "TorrentResumed"
          /\ evt' = [hash |-> ih]
    /\ calls' = <<>>
    /\ argParams' = <<>> /\ params' = <<>> /\ userdata' = <<>> /\ hashes' = <<>>
    /\ UNCHANGED pauseCount
    /\ UNCHANGED progVars

InitSync ==
    /\ InitFrame
    /\ isWin32 \in BOOLEAN
    /\ \E check \in BOOLEAN, limit \in Limits : cfg = Config(<<>>, TRUE, check, limit)

NextSync ==
    \/ TorrentAdded
    \/ TorrentRemoved
    \/ TorrentsUpdated
    \/ TorrentStatistics
    \/ TorrentResumed
    \/ SelectionChanged
    \/ MetadataFound

SpecSync == InitSync /\ [][NextSync]_vars

(***************************************************************************)
(* The disk-space check at its boundary: update batches of one torrent     *)
(* whose volume has the byte counts of BoundaryAnswers.                    *)
(***************************************************************************)
BoundaryBatches ==
    {<<e>> : e \in {u \in [handle : Handles, disk : BoundaryAnswers] : u.handle.obj = "x"}}

\* a torrents-updated event for one torrent on such a volume
DiskSpaceChecked == TorrentsUpdatedFrom(BoundaryBatches)

InitDisk ==
    /\ InitFrame
    /\ isWin32 = TRUE
    /\ \E limit \in BoundaryLimits : cfg = Config(<<>>, TRUE, TRUE, limit)

NextDisk ==
    \/ TorrentAdded
    \/ DiskSpaceChecked
    \/ TorrentResumed

SpecDisk == InitDisk /\ [][NextDisk]_vars

(***************************************************************************)
(* What the last handler did, read off its calls.                          *)
(***************************************************************************)
AddOps == {"AddTorrents", "HandleParams"}

CallsOf(kind) == SelectSeq(calls, LAMBDA c : c[1] = kind)

\* the descriptors handed on, in order: to the session or to a review dialog
Submitted == [i \in 1..Len(CallsOf("m_session->AddTorrent")) |-> CallsOf("m_session->AddTorrent")[i][2]]
Reviewed == [i \in 1..Len(CallsOf("dlg->Show")) |-> CallsOf("dlg->Show")[i][2].param]
Ready == Submitted \o Reviewed

\* the dialogs a metadata-found event was posted to
Posted == {calls[i][2].dlg : i \in {j \in 1..Len(calls) : calls[j][1] = "wxPostEvent"}}

\* two descriptors name the same torrent request
SameTorrent(p, q) ==
    /\ p.hasTi = q.hasTi /\ p.tiName = q.tiName /\ p.name = q.name
    /\ p.v1 = q.v1 /\ p.v2 = q.v2

\* the info hashes of the descriptors of ps that have no metadata and a hash
\* that is not the all-zero placeholder, in order
RECURSIVE PendingHashes(_)
PendingHashes(ps) ==
    IF ps = <<>> THEN <<>>
    ELSE (IF ~Head(ps).hasTi /\ (Head(ps).v1 # 0 \/ Head(ps).v2 # 0)
          THEN <<<<Head(ps).v1, Head(ps).v2>>>> ELSE <<>>)
         \o PendingHashes(Tail(ps))

\* the label the matcher is specified to give: the first one, in the list's
\* order, whose filter is enabled, non-empty and found in the name, case ignored
\* (a filter that is no regular expression is found nowhere)
FilterFound(name, label) ==
    /\ label.applyFilterEnabled
    /\ label.applyFilter # <<>>
    /\ RegexValid(label.applyFilter)
    /\ \E k \in 1..Len(name) :
         /\ k + Len(label.applyFilter) - 1 <= Len(name)
         /\ \A i \in 1..Len(label.applyFilter) :
              Lower(name[k + i - 1]) = Lower(label.applyFilter[i])

FirstMatch(name, labels) ==
    LET found == {i \in 1..Len(labels) : FilterFound(name, labels[i])}
    IN  IF found = {} THEN NoLabel
        ELSE labels[CHOOSE i \in found : \A j \in found : i <= j].id

\* the name of a descriptor: the explicit one, else the torrent info's, else none
NameOf(p) == IF p.name # <<>> THEN p.name ELSE IF p.hasTi THEN p.tiName ELSE <<>>

\* the label the last AddTorrents call left on entry i of its batch
AssignedLabel(i) == IF i <= Len(userdata) THEN userdata[i] ELSE NoLabel

HasInvalidFilter(labels) ==
    \E i \in 1..Len(labels) :
        labels[i].applyFilterEnabled /\ ~RegexValid(labels[i].applyFilter)

(***************************************************************************)
(* C1.  Every key of m_selection is the hash of a torrent that was added   *)
(* and has not been removed since, and right after the removed event for a *)
(* hash that hash is no key of m_selection.                                *)
(***************************************************************************)
C1_SelectionKeysAreLive ==
    /\ DOMAIN m_selection \subseteq DOMAIN torrents
    /\ lastOp = "TorrentRemoved" => evt.hash \notin DOMAIN m_selection

\* a selected torrent was removed while another one stays selected
C1_Witness ==
    /\ lastOp = "TorrentRemoved"
    /\ CallsOf("m_torrentDetails->Reset") # <<>>
    /\ DOMAIN m_selection # {}

C3_PausedOncePerEpisode == \A ih \in DOMAIN torrents : pauseCount[ih] <= 1

(***************************************************************************)
(* C4.  Every descriptor of a batch gets the first label, in the list's    *)
(* order, whose filter is enabled, non-empty and found in its name (case   *)
(* ignored, anywhere in the name), and no label when there is none.        *)
(***************************************************************************)
C4_FirstMatchingLabel ==
    lastOp \in AddOps =>
        \A i \in 1..Len(argParams) :
            AssignedLabel(i) = FirstMatch(NameOf(argParams[i]), cfg.labels)

(***************************************************************************)
(* C5.  A label whose filter is no regular expression never aborts the     *)
(* batch: every descriptor is still classified and handed on.              *)
(***************************************************************************)
C5_InvalidFilterNeverAborts ==
    (lastOp \in AddOps /\ HasInvalidFilter(cfg.labels)) =>
        /\ ~crashed
        /\ Len(userdata) = Len(argParams)
        /\ Len(Ready) = Len(argParams)

(***************************************************************************)
(* C6.  The hashes AddTorrents collects are exactly those of the           *)
(* descriptors without metadata and with a non-placeholder hash, in input  *)
(* order, duplicates kept.                                                 *)
(***************************************************************************)
C6_PendingHashesExact ==
    lastOp \in AddOps => hashes = PendingHashes(argParams)

(***************************************************************************)
(* C7.  Classification drops and reorders nothing: the descriptors handed  *)
(* on are the input descriptors, one for one and in order.                 *)
(***************************************************************************)
C7_ReadyIsInput ==
    lastOp \in AddOps =>
        /\ Len(Ready) = Len(argParams)
        /\ \A i \in 1..Len(Ready) : SameTorrent(Ready[i], argParams[i])

(***************************************************************************)
(* C8.  After a non-empty batch a metadata search carrying the batch's     *)
(* pending hashes is requested, whatever skip_add_torrent_dialog is.       *)
(***************************************************************************)
C8_MetadataSearchRequested ==
    (lastOp \in AddOps /\ argParams # <<>>) =>
        CallsOf("m_session->AddMetadataSearch")
            = << <<"m_session->AddMetadataSearch", PendingHashes(argParams)>> >>

(***************************************************************************)
(* C9.  With skip_add_torrent_dialog set every descriptor is submitted to  *)
(* the session once, in input order, and no dialog opens; with it clear    *)
(* one dialog opens per descriptor and nothing is submitted.               *)
(***************************************************************************)
C9_SubmissionPolicy ==
    lastOp \in AddOps =>
        IF cfg.skip_add_torrent_dialog
        THEN /\ Len(Submitted) = Len(argParams)
             /\ \A i \in 1..Len(Submitted) : SameTorrent(Submitted[i], argParams[i])
             /\ Reviewed = <<>>
        ELSE /\ Len(Reviewed) = Len(argParams)
             /\ \A i \in 1..Len(Reviewed) : SameTorrent(Reviewed[i], argParams[i])
             /\ Submitted = <<>>

(***************************************************************************)
(* C10.  An empty batch is a no-op: AddTorrents with no descriptor, and    *)
(* HandleParams whose files and magnets yield none, make no call on the    *)
(* session, open no dialog, request no metadata search and change no       *)
(* state of the frame or the session.                                      *)
(***************************************************************************)
C10_EmptyBatchIsNoOp ==
    [][(lastOp' \in AddOps /\ argParams' = <<>>) =>
          /\ calls' = <<>>
          /\ params' = <<>> /\ userdata' = <<>> /\ hashes' = <<>>
          /\ UNCHANGED progVars
          /\ UNCHANGED envVars]_vars

\* HandleParams was given a file and a magnet link, none of which parsed, while
\* a dialog was open
C10_Witness ==
    /\ lastOp = "HandleParams"
    /\ argParams = <<>>
    /\ evt.files # <<>> /\ evt.magnets # <<>>
    /\ m_addDialogs # {}

\* the entries of the batch the classification loop of the last AddTorrents
\* call reached, and the label with a given id
Reached == 1..Len(userdata)

LabelWithId(id, labels) == labels[CHOOSE j \in 1..Len(labels) : labels[j].id = id]

\* the save path specified for a descriptor that was given the label id
ExpectedSavePath(id, c) ==
    IF id = NoLabel THEN c.default_save_path
    ELSE LET label == LabelWithId(id, c.labels)
         IN  IF label.savePathEnabled /\ label.savePath # "" THEN label.savePath
             ELSE c.default_save_path

(***************************************************************************)
(* C11.  After classification a descriptor's save path is its label's save *)
(* path when a label matched whose save-path override is enabled and       *)
(* non-empty, and the configured default save path in every other case;    *)
(* the descriptors handed on carry that save path.  (No label's save path  *)
(* equals the default one, so this is the claim's "if and only if".)       *)
(***************************************************************************)
C11_SavePathOverride ==
    lastOp \in AddOps =>
        /\ \A i \in Reached : params[i].save_path = ExpectedSavePath(userdata[i], cfg)
        /\ \A i \in 1..Len(Ready) : Ready[i].save_path = params[i].save_path

\* one descriptor got a label that overrides the save path, another one a label
\* that does not, and both were handed on
C11_Witness ==
    /\ lastOp \in AddOps
    /\ Len(Ready) = 2
    /\ \E i, j \in Reached :
         /\ userdata[i] # NoLabel /\ Ready[i].save_path # cfg.default_save_path
         /\ userdata[j] # NoLabel /\ Ready[j].save_path = cfg.default_save_path

(***************************************************************************)
(* C12.  The name labels are matched against is the explicit name when it  *)
(* is non-empty, else the torrent info's name, else empty: every           *)
(* descriptor the loop reached without an exception has the first label    *)
(* found in that name.  A descriptor whose derived name is empty gets no   *)
(* label and the default save path whatever the labels are, and no label   *)
(* is ever compiled for it.                                                *)
(***************************************************************************)
C12_DerivedName ==
    lastOp \in AddOps =>
        /\ \A i \in Reached :
             (~crashed \/ i < Len(userdata)) =>
                 userdata[i] = FirstMatch(NameOf(argParams[i]), cfg.labels)
        /\ \A i \in Reached :
             NameOf(argParams[i]) = <<>> =>
                 /\ userdata[i] = NoLabel
                 /\ params[i].save_path = cfg.default_save_path
                 /\ ~(crashed /\ i = Len(userdata))

\* a descriptor with an explicit name and a torrent info of another name got the
\* label found in the explicit name only, and an unnamed one of the same batch
\* was handed on although a filter that is no regular expression is configured
C12_Witness ==
    /\ lastOp \in AddOps
    /\ \E i \in Reached :
         /\ argParams[i].hasTi /\ argParams[i].name # <<>>
         /\ userdata[i] # NoLabel
         /\ userdata[i] # FirstMatch(argParams[i].tiName, cfg.labels)
    /\ HasInvalidFilter(cfg.labels)
    /\ \E i \in 1..Len(Ready) : NameOf(argParams[i]) = <<>>

(***************************************************************************)
(* C13.  Every descriptor that leaves classification, to the session or to *)
(* a dialog, has duplicate_is_error set and still has every flag it came   *)
(* in with.                                                                *)
(***************************************************************************)
C13_DuplicateIsErrorKept ==
    lastOp \in AddOps =>
        \A i \in 1..Len(Ready) :
            /\ "duplicate_is_error" \in Ready[i].flags
            /\ argParams[i].flags \subseteq Ready[i].flags

\* a descriptor that came in paused was handed on
C13_Witness ==
    /\ lastOp \in AddOps
    /\ \E i \in 1..Len(Ready) : "paused" \in argParams[i].flags

\* the refresh and reset signals the last handler sent to the details view
RefreshCalls == CallsOf("m_torrentDetails->Refresh")
ResetCalls == CallsOf("m_torrentDetails->Reset")

(***************************************************************************)
(* C14.  After a torrents-updated event, for every handle of the batch     *)
(* whose hash is a key of m_selection, the handle stored under that key is *)
(* the handle the batch delivered.                                         *)
(***************************************************************************)
C14_StoredHandleRefreshed ==
    lastOp = "TorrentsUpdated" =>
        \A i \in 1..Len(evt.batch) :
            evt.batch[i].handle.hash \in DOMAIN m_selection =>
                m_selection[evt.batch[i].handle.hash] = evt.batch[i].handle

(***************************************************************************)
(* C15.  A torrents-updated event refreshes the details view with exactly  *)
(* the handles of the batch whose hashes are keys of m_selection, sends no *)
(* refresh when there is none, and leaves the key set of m_selection as it *)
(* was.                                                                    *)
(***************************************************************************)
C15_RefreshesSelectedSubset ==
    [][lastOp' = "TorrentsUpdated" =>
          LET batch == evt'.batch
              sel == {batch[i].handle.hash : i \in 1..Len(batch)} \cap DOMAIN m_selection
          IN  /\ DOMAIN m_selection' = DOMAIN m_selection
              /\ sel = {} => RefreshCalls' = <<>>
              /\ sel # {} =>
                   /\ Len(RefreshCalls') = 1
                   /\ DOMAIN RefreshCalls'[1][2] = sel
                   /\ \A ih \in sel : \E i \in 1..Len(batch) :
                        batch[i].handle = RefreshCalls'[1][2][ih]]_vars

\* a batch of a selected and an unselected torrent was delivered
C15_Witness ==
    /\ lastOp = "TorrentsUpdated"
    /\ Len(evt.batch) = 2
    /\ Len(RefreshCalls) = 1
    /\ Cardinality(DOMAIN RefreshCalls[1][2]) = 1

(***************************************************************************)
(* C16.  A selection change replaces m_selection wholesale: its keys are   *)
(* then exactly the hashes of the selected items whatever they were        *)
(* before, the same items selected again give the same m_selection, and    *)
(* with no item selected m_selection is empty and the details view is      *)
(* reset.                                                                  *)
(***************************************************************************)
C16_SelectionReplaced ==
    [][lastOp' = "SelectionChanged" =>
          /\ DOMAIN m_selection' = evt'.items
          /\ (lastOp = "SelectionChanged" /\ evt.items = evt'.items) =>
                 m_selection' = m_selection
          /\ evt'.items = {} =>
                 /\ m_selection' = EmptyMap
                 /\ calls' = << <<"m_torrentDetails->Reset", <<>> >> >>]_vars

\* one of two rows was selected
C16_Witness ==
    /\ lastOp = "SelectionChanged"
    /\ Cardinality(DOMAIN listModel) = 2
    /\ Cardinality(evt.items) = 1
    /\ DOMAIN m_selection = evt.items

(***************************************************************************)
(* C17.  The removed handler resets the details view when the removed      *)
(* torrent was the only selected one; whenever it sends the reset,         *)
(* m_selection is empty; removing a torrent that is not selected sends no  *)
(* reset and leaves m_selection as it was.                                 *)
(***************************************************************************)
C17_ResetMeansEmptySelection ==
    [][lastOp' = "TorrentRemoved" =>
          /\ DOMAIN m_selection = {evt'.hash} => ResetCalls' # <<>>
          /\ ResetCalls' # <<>> => DOMAIN m_selection' = {}
          /\ evt'.hash \notin DOMAIN m_selection =>
                 ResetCalls' = <<>> /\ m_selection' = m_selection]_vars

(***************************************************************************)
(* C18.  The added handler leaves m_selection as it was and raises the     *)
(* torrent counter by exactly one.                                         *)
(***************************************************************************)
C18_AddedKeepsSelection ==
    [][lastOp' = "TorrentAdded" =>
          /\ m_selection' = m_selection
          /\ m_torrentsCount' = m_torrentsCount + 1]_vars

\* a torrent was added while another one was selected
C18_Witness ==
    /\ lastOp = "TorrentAdded"
    /\ DOMAIN m_selection # {}
    /\ m_torrentsCount = 2

(***************************************************************************)
(* C19.  The torrent counter is the number of torrents added and not yet   *)
(* removed, so never negative, and a torrent that was added and then       *)
(* removed is absent: not selected, not counted.                           *)
(***************************************************************************)
C19_CounterIsLiveTorrents ==
    /\ m_torrentsCount = Cardinality(DOMAIN torrents)
    /\ m_torrentsCount >= 0
    /\ lastOp = "TorrentRemoved" =>
          /\ evt.hash \notin DOMAIN m_selection
          /\ evt.hash \notin DOMAIN torrents

\* the only torrent, selected, was removed: the counter is back at zero
C19_Witness ==
    /\ lastOp = "TorrentRemoved"
    /\ ResetCalls # <<>>
    /\ m_torrentsCount = 0

\* the last handler paused the torrent of handle th and showed its balloon
PausedAndNotified(th) ==
    /\ \E i \in 1..Len(calls) : calls[i] = <<"torrent->Pause", th>>
    /\ \E i \in 1..Len(calls) : calls[i] = <<"m_taskBarIcon->ShowBalloon", th.hash>>

\* the last handler neither paused the torrent of handle th nor showed its balloon
NeitherPausedNorNotified(th) ==
    \A i \in 1..Len(calls) :
        /\ calls[i] # <<"torrent->Pause", th>>
        /\ calls[i] # <<"m_taskBarIcon->ShowBalloon", th.hash>>

(***************************************************************************)
(* C20.  With the check enabled, a handle whose disk query succeeds with a *)
(* total above zero is paused and notified if free * 100 < limit * total,  *)
(* and neither paused nor notified otherwise: at the limit there is no     *)
(* pause, strictly below it there is.                                      *)
(***************************************************************************)
C20_PausesStrictlyBelowLimit ==
    (lastOp = "TorrentsUpdated" /\ ChecksDiskSpace(cfg, isWin32)) =>
        \A i \in 1..Len(evt.batch) :
            LET e == evt.batch[i]
                below == e.disk.free * 100 < cfg.pause_on_low_disk_space_limit * e.disk.total
            IN  (e.disk.res /\ e.disk.total > 0) =>
                    IF below THEN PausedAndNotified(e.handle)
                    ELSE NeitherPausedNorNotified(e.handle)

\* the positions of the pause commands and balloons among the last handler's calls
GovernorCalls ==
    {i \in 1..Len(calls) : calls[i][1] \in {"torrent->Pause", "m_taskBarIcon->ShowBalloon"}}

(***************************************************************************)
(* C21.  The disk-space check acts only when enabled and only on a         *)
(* torrents-updated event: with pause_on_low_disk_space off no torrent is  *)
(* ever paused or notified, no other handler issues a pause or a balloon,  *)
(* and one torrents-updated event issues at most one pause and one balloon *)
(* per handle of its batch.                                                *)
(***************************************************************************)
C21_GovernorOnlyWhenEnabled ==
    /\ ~cfg.pause_on_low_disk_space =>
          /\ GovernorCalls = {}
          /\ \A ih \in DOMAIN torrents : torrents[ih] # "paused" /\ pauseCount[ih] = 0
    /\ lastOp # "TorrentsUpdated" => GovernorCalls = {}
    /\ lastOp = "TorrentsUpdated" =>
          \A k \in 1..Len(evt.batch) :
              /\ Cardinality({i \in GovernorCalls :
                     calls[i] = <<"torrent->Pause", evt.batch[k].handle>>}) <= 1
              /\ Cardinality({i \in GovernorCalls :
                     calls[i] = <<"m_taskBarIcon->ShowBalloon", evt.batch[k].handle.hash>>}) <= 1

\* with the check off, a batch arrived whose torrent's volume is below the limit
C21_Witness ==
    /\ lastOp = "TorrentsUpdated"
    /\ ~cfg.pause_on_low_disk_space
    /\ isWin32
    /\ \E k \in 1..Len(evt.batch) :
         /\ evt.batch[k].handle.hash \in DOMAIN torrents
         /\ evt.batch[k].disk.res
         /\ evt.batch[k].disk.free = 49

(***************************************************************************)
(* C22.  In one pass of the check a handle whose disk query fails or       *)
(* whose total is zero is neither paused nor notified and raises no error, *)
(* and every other handle of the batch is still paused and notified        *)
(* exactly when its free space is below the limit.                         *)
(***************************************************************************)
C22_FailedQuerySkipped ==
    (lastOp = "TorrentsUpdated" /\ ChecksDiskSpace(cfg, isWin32)) =>
        /\ ~crashed
        /\ \A k \in 1..Len(evt.batch) :
             LET e == evt.batch[k]
             IN  IF ~e.disk.res \/ e.disk.total = 0
                 THEN NeitherPausedNorNotified(e.handle)
                 ELSE IF e.disk.free * 100 < cfg.pause_on_low_disk_space_limit * e.disk.total
                      THEN PausedAndNotified(e.handle)
                      ELSE NeitherPausedNorNotified(e.handle)

\* a batch of a handle whose query failed, first, and a handle below the limit
C22_Witness ==
    /\ lastOp = "TorrentsUpdated"
    /\ ChecksDiskSpace(cfg, isWin32)
    /\ Len(evt.batch) = 2
    /\ ~evt.batch[1].disk.res
    /\ PausedAndNotified(evt.batch[2].handle)

\* the files and magnet links of the last HandleParams call that parse
WellFormedFiles == SelectSeq(evt.files, LAMBDA f : f.parses)
WellFormedMagnets == SelectSeq(evt.magnets, LAMBDA m : m.scheme = "magnet" /\ m.xt # 0)

(***************************************************************************)
(* C23.  HandleParams hands AddTorrents exactly one descriptor per file    *)
(* and magnet link that parses, files before magnet links and each in      *)
(* input order; an entry that does not parse gives no descriptor and does  *)
(* not stop the entries after it.                                          *)
(***************************************************************************)
C23_ParseErrorsSkipped ==
    lastOp = "HandleParams" =>
        /\ Len(argParams) = Len(WellFormedFiles) + Len(WellFormedMagnets)
        /\ \A i \in 1..Len(WellFormedFiles) :
             /\ argParams[i].hasTi
             /\ argParams[i].tiName = WellFormedFiles[i].tiName
        /\ \A i \in 1..Len(WellFormedMagnets) :
             LET p == argParams[Len(WellFormedFiles) + i]
             IN  /\ ~p.hasTi
                 /\ p.v1 = WellFormedMagnets[i].xt
                 /\ p.name = WellFormedMagnets[i].dn

\* a malformed file before a good one and a malformed magnet link before a good one
C23_Witness ==
    /\ lastOp = "HandleParams"
    /\ Len(evt.files) = 2 /\ ~evt.files[1].parses /\ evt.files[2].parses
    /\ Len(evt.magnets) = 2 /\ evt.magnets[1].scheme # "magnet"
    /\ Len(argParams) = 2

\* no open dialog was opened for the hash h
Unregistered(h) == \A d \in m_addDialogs : d.info_hashes # h

C25_UnknownHashIsNoOp ==
    [][lastOp' = "TorrentsUpdated" =>
          \A k \in 1..Len(evt'.batch) :
              evt'.batch[k].handle.hash \notin DOMAIN torrents =>
                  /\ m_selection' = m_selection
                  /\ m_torrentsCount' = m_torrentsCount
                  /\ \A i \in 1..Len(RefreshCalls') :
                       evt'.batch[k].handle.hash \notin DOMAIN RefreshCalls'[i][2]
                  /\ \A i \in 1..Len(calls') :
                       /\ calls'[i] # <<"torrent->Pause", evt'.batch[k].handle>>
                       /\ calls'[i] # <<"m_taskBarIcon->ShowBalloon",
                                        evt'.batch[k].handle.hash>>]_vars

\* the dialogs the last handler showed, and the positions of its calls of a kind
ShownDialogs == {CallsOf("dlg->Show")[i][2].dlg : i \in 1..Len(CallsOf("dlg->Show"))}

PositionsOf(kind) == {i \in 1..Len(calls) : calls[i][1] = kind}

(***************************************************************************)
(* C26.  On the review path every dialog of a batch is inserted into       *)
(* m_addDialogs before the batch's metadata search is requested, and       *)
(* m_addDialogs is always the set of dialogs opened and not yet closed:    *)
(* AddTorrents adds exactly the dialogs it shows, a closing dialog removes *)
(* itself, nothing else changes the set, and a metadata-found event is     *)
(* posted to dialogs of the set only.                                      *)
(***************************************************************************)
C26_RegisteredBeforeSearch ==
    [][/\ lastOp' \in AddOps =>
            /\ m_addDialogs' = m_addDialogs \cup ShownDialogs'
            /\ ShownDialogs' \cap m_addDialogs = {}
            /\ \A s \in PositionsOf("m_session->AddMetadataSearch")' :
                   /\ Cardinality(ShownDialogs') = Len(argParams')
                   /\ \A d \in ShownDialogs' :
                        \E j \in 1..(s - 1) : calls'[j] = <<"m_addDialogs.insert", d>>
       /\ lastOp' = "DialogClosed" =>
            /\ evt'.dlg \in m_addDialogs
            /\ m_addDialogs' = m_addDialogs \ {evt'.dlg}
       /\ lastOp' = "MetadataFound" =>
            /\ m_addDialogs' = m_addDialogs
            /\ Posted' \subseteq m_addDialogs]_vars

\* a batch of two opened two dialogs and asked for the metadata of a pending hash
C26_Witness ==
    /\ lastOp \in AddOps
    /\ Cardinality(ShownDialogs) = 2
    /\ ShownDialogs \subseteq m_addDialogs
    /\ \E s \in PositionsOf("m_session->AddMetadataSearch") : calls[s][2] # <<>>

=============================================================================
